---- MODULE Spec2Model ----
(***************************************************************************)
(* Model of the MCF template engine (scripts/template-engine.py):          *)
(* TemplateEngine.list_templates, load_template, collect_variables,        *)
(* substitute_variables, execute_step, execute_template,                   *)
(* check_prerequisite and the command line entry point main.               *)
(*                                                                         *)
(* Strings are sequences of one-character strings, so that str.replace,    *)
(* str.strip, re.match and path splitting are computed character by        *)
(* character.  A Python dict is a sequence of [name, value] records in     *)
(* insertion order.                                                        *)
(***************************************************************************)
EXTENDS Integers, Sequences, FiniteSets, TLC

VARIABLES
    pc,          \* position of the `init` run (main / execute_template)
    argv,        \* sys.argv[1:] of the `init` invocation
    doc,         \* the document <templates_dir>/<template_name>.json
    hostTools,   \* executables resolvable on the host's search path
    variables,   \* collect_variables: the dict being filled / returned
    value,       \* collect_variables: local `value` of the prompt loop
    verdict,     \* collect_variables: outcome of the last loop iteration
    i,           \* index of the loop the run is in (1-based)
    fs,          \* the filesystem below (and beside) the target directory
    fs0,         \* the filesystem when the run started
    attempted,   \* steps handed to execute_step, in order, with results
    postLog,     \* commands handed to os.system, in order, with status
    out,         \* diagnostics printed by execute_template
    result,      \* return value of execute_template
    exitCode,    \* exit status of the process
    sText,       \* substitute_variables: argument text
    sMap,        \* substitute_variables: argument variables
    sResult,     \* substitute_variables: return value
    sPc,         \* substitute_variables: "call" or "done"
    dir,         \* list_templates: content of templates_dir
    listed,      \* list_templates: return value
    lPc,         \* list_templates: "call", "returned" or "raised"
    prev,        \* the earlier run against the same target directory, if any
    saved,       \* save_template: the last call and its return value
    loaded       \* load_template: the last call and its outcome

runVars == <<pc, argv, doc, hostTools, variables, value, verdict, i, fs, fs0,
             attempted, postLog, out, result, exitCode>>
substVars == <<sText, sMap, sResult, sPc>>
listVars == <<dir, listed, lPc>>
histVars == <<prev>>
storeVars == <<saved, loaded>>
vars == <<runVars, substVars, listVars, histVars, storeVars>>

----------------------------------------------------------------------------
(* Bounds of the model *)

MaxSteps == 3      \* longest steps list of a template
MaxVars == 2       \* longest variables list of a template
MaxPieces == 2     \* longest text (in pieces) given to substitute_variables
MaxFiles == 3      \* most *.json files in templates_dir

----------------------------------------------------------------------------
(* Strings *)

Range(s) == {s[k] : k \in 1..Len(s)}

SeqsUpTo(S, n) == UNION {[1..k -> S] : k \in 0..n}

Empty == <<>>

\* f"{{{{{name}}}}}" : the placeholder of a variable name
Token(name) == <<"{", "{">> \o name \o <<"}", "}">>

\* str.replace(old, new): leftmost, non-overlapping occurrences, one pass
RECURSIVE Replace(_, _, _)
Replace(s, old, new) ==
    IF Len(s) < Len(old) \/ Len(old) = 0 THEN s
    ELSE IF SubSeq(s, 1, Len(old)) = old
         THEN new \o Replace(SubSeq(s, Len(old) + 1, Len(s)), old, new)
         ELSE <<s[1]>> \o Replace(Tail(s), old, new)

\* str.strip(): drop leading and trailing whitespace
RECURSIVE LStrip(_)
LStrip(s) == IF s # <<>> /\ s[1] = " " THEN LStrip(Tail(s)) ELSE s

RECURSIVE RStrip(_)
RStrip(s) ==
    IF s # <<>> /\ s[Len(s)] = " " THEN RStrip(SubSeq(s, 1, Len(s) - 1)) ELSE s

Strip(s) == RStrip(LStrip(s))

\* variables[name] = value on an insertion-ordered dict
DictSet(d, name, val) ==
    IF \E k \in 1..Len(d) : d[k].name = name
    THEN [k \in 1..Len(d) |->
            IF d[k].name = name THEN [name |-> name, value |-> val] ELSE d[k]]
    ELSE Append(d, [name |-> name, value |-> val])

----------------------------------------------------------------------------
(* TemplateEngine.substitute_variables *)

RECURSIVE SubstituteFrom(_, _, _)
SubstituteFrom(res, vs, k) ==
    IF k > Len(vs) THEN res
    ELSE SubstituteFrom(Replace(res, Token(vs[k].name), vs[k].value), vs, k + 1)

substitute_variables(text, vs) == SubstituteFrom(text, vs, 1)

----------------------------------------------------------------------------
(* Template documents and the host *)

NameA == <<"a">>
NameB == <<"b">>

\* VariableSpec: default "" and options [] stand for an absent key
\* (var_config.get('default', ''), var_config.get('options', [])).
\* A validation pattern "[cls]+" (anchored FALSE) or "^[cls]+$" (anchored
\* TRUE) is the record [cls, anchored]; NoPattern is an absent key.
NoPattern == [cls |-> {}, anchored |-> FALSE, present |-> FALSE]
Lower == {"a", "b", "d", "e", "o", "p", "r", "s", "t", "v", "g"}
LowerPlus == [cls |-> Lower, anchored |-> FALSE, present |-> TRUE]
LowerOnly == [cls |-> Lower, anchored |-> TRUE, present |-> TRUE]

Dev == <<"d", "e", "v">>
Prod == <<"p", "r", "o", "d">>
Stage == <<"s", "t", "a", "g", "e">>

VarSpec(n, d, o, v) == [name |-> n, default |-> d, options |-> o, validation |-> v]

\* the variable of the templates that are run to the end
EnvVar == VarSpec(NameA, Dev, <<Dev, Prod>>, NoPattern)

StepCommand == [type |-> "command", command |-> <<"c", " ">> \o Token(NameA),
                path |-> Empty, content |-> Empty]
StepDirectory == [type |-> "directory", command |-> Empty,
                  path |-> <<"d">>, content |-> Empty]
StepFile == [type |-> "file", command |-> Empty,
             path |-> <<"d", "/">> \o Token(NameA), content |-> <<"x", "=">> \o Token(NameA)]
StepOther == [type |-> "symlink", command |-> Empty,
              path |-> <<"d">>, content |-> Empty]

StepPool == {StepCommand, StepDirectory, StepFile, StepOther}

Tools == {"git", "node"}

PrereqLists == {<<>>, <<"node">>, <<"git", "node">>}
HostToolSets == {{"git"}, {"git", "node"}}

PostLists == {<<>>, << <<"p", " ">> \o Token(NameA), <<"q">> >>}
NextStepLists == {<<>>, <<"cd d">>}

\* a parsed template document; an absent key reads as the empty list
Template(vs, pr, st, po, ns) ==
    [name |-> "tpl", variables |-> vs, prerequisites |-> pr, steps |-> st,
     postInstall |-> po, nextSteps |-> ns]

NoTemplate == Template(<<>>, <<>>, <<>>, <<>>, <<>>)

RunTemplates ==
    {Template(vs, pr, st, po, ns) :
        vs \in {<<>>, <<EnvVar>>}, pr \in PrereqLists,
        st \in SeqsUpTo(StepPool, MaxSteps), po \in PostLists, ns \in NextStepLists}

\* the file <templates_dir>/<name>.json: absent, not JSON, or a template
Docs(templates) ==
    {[state |-> "missing", template |-> NoTemplate],
     [state |-> "malformed", template |-> NoTemplate]}
    \cup {[state |-> "ok", template |-> t] : t \in templates}

----------------------------------------------------------------------------
(* The filesystem: the set of directories and the content of each file,    *)
(* keyed by the path as written (relative paths are below the target       *)
(* directory, which exists; "" is the target directory itself).            *)

NoFiles == [p \in {} |-> Empty]
EmptyFs == [dirs |-> {}, files |-> NoFiles]
\* a target directory that already holds the regular file "d"
BlockedFs == [dirs |-> {}, files |-> [p \in {<<"d">>} |-> <<"o">>]]

InitialFs == {EmptyFs, BlockedFs}

\* the proper ancestors of a path below the target directory
Parents(p) == {SubSeq(p, 1, k - 1) : k \in {j \in 2..Len(p) : p[j] = "/"}}

IsFile(f, p) == p \in DOMAIN f.files
IsDir(f, p) == p = Empty \/ p \in f.dirs

\* Path.mkdir(parents=True, exist_ok=True)
MkdirFails(f, p) == IsFile(f, p) \/ \E q \in Parents(p) : IsFile(f, q)
Mkdir(f, p) == [f EXCEPT !.dirs = @ \cup Parents(p) \cup ({p} \ {Empty})]

\* a write that leaves a file that is already there alone
WriteFileKeepsExisting(f, p, c) ==
    IF p \in DOMAIN f.files THEN f
    ELSE [f EXCEPT !.files = [q \in DOMAIN @ \cup {p} |-> IF q = p THEN c ELSE @[q]]]

\* open(path, 'w').write(content)
WriteFails(f, p) == IsDir(f, p) \/ \E q \in Parents(p) : ~IsDir(f, q)
WriteFile(f, p, c) ==
    [f EXCEPT !.files = [q \in DOMAIN @ \cup {p} |-> IF q = p THEN c ELSE @[q]]]

\* Path.parent of a path below the target directory
ParentOf(p) ==
    LET ks == {j \in 2..Len(p) : p[j] = "/"}
    IN IF ks = {} THEN Empty
       ELSE SubSeq(p, 1, (CHOOSE k \in ks : \A j \in ks : j <= k) - 1)

----------------------------------------------------------------------------
(* TemplateEngine.collect_variables, one iteration of `while True`         *)

\* what input() can return (before strip)
DevDash == <<"d", "e", "v", "-", "A">>
RawInputs == {Empty, <<" ">>, Dev, Dev \o <<" ">>, Prod, Stage, DevDash, <<"M", "y">>}

\* re.match(pattern, value): the pattern matches at the start of value
ReMatch(pattern, v) ==
    \E n \in 1..Len(v) :
        /\ \A k \in 1..n : v[k] \in pattern.cls
        /\ pattern.anchored => n = Len(v)

\* value = input().strip(); if not value and default: value = default
Resolve(spec, raw) ==
    IF Strip(raw) = Empty /\ spec.default # Empty THEN spec.default ELSE Strip(raw)

\* a collector that forgets the options check
VerdictWithoutOptions(spec, v) ==
    IF v = Empty THEN "required"
    ELSE IF spec.validation.present /\ ~ReMatch(spec.validation, v) THEN "format"
    ELSE "accepted"

\* the message of the check that rejects the value, or "accepted"
Verdict(spec, v) ==
    IF v = Empty THEN "required"
    ELSE IF spec.options # <<>> /\ v \notin Range(spec.options) THEN "options"
    ELSE IF spec.validation.present /\ ~ReMatch(spec.validation, v) THEN "format"
    ELSE "accepted"

----------------------------------------------------------------------------
(* TemplateEngine.check_prerequisite: `command -v prereq` exits 0 *)

\* a checker that finds every tool
AlwaysResolvable(prereq, host) == TRUE

check_prerequisite(prereq, host) == prereq \in host

----------------------------------------------------------------------------
(* TemplateEngine.execute_step.  env is what the host does to the step:    *)
(* the exit of the command, or an OSError raised by the filesystem.        *)

StepEnv(step) ==
    IF step.type = "command" THEN {"exit0", "exit1", "timeout", "oserror"}
    ELSE IF step.type \in {"directory", "file"} THEN {"ok", "oserror"}
    ELSE {"ok"}

\* a command step that takes a timeout for success
CommandIgnoresTimeout(env) == env \in {"exit0", "timeout"}

\* subprocess.run: only a zero exit status is success; a non-zero status,
\* TimeoutExpired and any other exception each return False
CommandSucceeds(env) == env = "exit0"

\* an executor that refuses a step type it does not know
UnknownStepFails(f) == [ok |-> FALSE, fs |-> f]

\* the else branch: a warning, then `return True`
UnknownStep(f) == [ok |-> TRUE, fs |-> f]

execute_step(step, vs, f, env) ==
    IF step.type = "command" THEN [ok |-> CommandSucceeds(env), fs |-> f]
    ELSE IF step.type = "directory" THEN
        LET p == substitute_variables(step.path, vs)
        IN IF env = "oserror" \/ MkdirFails(f, p)
           THEN [ok |-> FALSE, fs |-> f]
           ELSE [ok |-> TRUE, fs |-> Mkdir(f, p)]
    ELSE IF step.type = "file" THEN
        LET p == substitute_variables(step.path, vs)
            c == substitute_variables(step.content, vs)
            g == Mkdir(f, ParentOf(p))
        IN IF env = "oserror" \/ MkdirFails(f, ParentOf(p))
           THEN [ok |-> FALSE, fs |-> f]
           ELSE IF WriteFails(g, p)
                THEN [ok |-> FALSE, fs |-> g]
                ELSE [ok |-> TRUE, fs |-> WriteFile(g, p, c)]
    ELSE UnknownStep(f)

----------------------------------------------------------------------------
(* main, command `init`, and TemplateEngine.execute_template *)

Msg(m, k) == [msg |-> m, at |-> k]

tpl == doc.template

\* a runner that goes on after a failed step
StepNeverAborts(ok) == FALSE

\* `if not self.execute_step(...)`: the run stops at a failed step
StepAborts(ok) == ~ok

\* a runner that undoes the earlier steps when it aborts
RolledBackFs(f, f0) == f0

\* the aborting branch prints and returns False: the filesystem stays as the
\* steps left it (f), whatever it was when the run started (f0)
AbortedFs(f, f0) == f

\* a post-install loop that gives up at the first failing command
StopAtFailedPostInstall(status, k) ==
    IF status # 0 THEN [pc |-> "Aborted", i |-> k] ELSE [pc |-> "PostInstall", i |-> k + 1]

\* the post-install loop goes on to the next command whatever os.system returns
AfterPostInstall(status, k) == [pc |-> "PostInstall", i |-> k + 1]

\* main returns after engine.execute_template(template_name), whose result
\* it drops; an exception that escapes main ends the process with status 1
ExitStatus(position, res) == IF position = "Raised" THEN 1 ELSE 0

\* a store that answers an absent document with an empty template
LoadMasksAbsence(d) == IF d.state = "malformed" THEN "JSONDecodeError" ELSE "ok"

\* TemplateEngine.load_template on the document d: FileNotFoundError when the
\* file does not exist, json.load's JSONDecodeError when it does not parse
load_template(d) ==
    IF d.state = "missing" THEN "FileNotFoundError"
    ELSE IF d.state = "malformed" THEN "JSONDecodeError"
    ELSE "ok"

MainInit ==
    /\ pc = "main"
    /\ argv[1] = "init"
    /\ IF Len(argv) < 2
       THEN /\ pc' = "Exited"
            /\ exitCode' = 0
            /\ out' = Append(out, Msg("specify_template", 0))
       ELSE /\ pc' = "Loading"
            /\ UNCHANGED <<exitCode, out>>
    /\ UNCHANGED <<argv, doc, hostTools, variables, value, verdict, i, fs, fs0,
                   attempted, postLog, result, substVars, listVars,
                   histVars, storeVars>>

LoadTemplate ==
    /\ pc = "Loading"
    /\ IF load_template(doc) = "FileNotFoundError"
       THEN /\ pc' = "Aborted"
            /\ result' = "False"
            /\ out' = Append(out, Msg("not_found", 0))
       ELSE IF load_template(doc) = "JSONDecodeError"
       THEN /\ pc' = "Raised"
            /\ UNCHANGED <<result, out>>
       ELSE /\ pc' = "CollectingVariables"
            /\ UNCHANGED <<result, out>>
    /\ i' = 1
    /\ UNCHANGED <<argv, doc, hostTools, variables, value, verdict, fs, fs0,
                   attempted, postLog, exitCode, substVars, listVars,
                   histVars, storeVars>>

\* one pass through the body of `while True` for variable i; input() raises
\* EOFError when the value source is exhausted, which unwinds collect_variables
\* and execute_template
CollectInput ==
    /\ pc = "CollectingVariables"
    /\ i <= Len(tpl.variables)
    /\ \E eof \in BOOLEAN, raw \in RawInputs :
        IF eof
        THEN /\ raw = Empty
             /\ pc' = "Raised"
             /\ value' = Empty
             /\ verdict' = "eof"
             /\ UNCHANGED <<variables, i>>
        ELSE LET spec == tpl.variables[i]
                 v == Resolve(spec, raw)
             IN /\ value' = v
                /\ verdict' = Verdict(spec, v)
                /\ IF Verdict(spec, v) = "accepted"
                   THEN /\ variables' = DictSet(variables, spec.name, v)
                        /\ i' = i + 1
                   ELSE UNCHANGED <<variables, i>>
                /\ pc' = pc
    /\ UNCHANGED <<argv, doc, hostTools, fs, fs0, attempted, postLog, out,
                   result, exitCode, substVars, listVars,
                   histVars, storeVars>>

\* collect_variables returns; its locals are gone
CollectReturn ==
    /\ pc = "CollectingVariables"
    /\ i > Len(tpl.variables)
    /\ pc' = "CheckingPrerequisites"
    /\ i' = 1
    /\ value' = Empty
    /\ verdict' = "none"
    /\ UNCHANGED <<argv, doc, hostTools, variables, fs, fs0, attempted, postLog,
                   out, result, exitCode, substVars, listVars,
                   histVars, storeVars>>

CheckPrerequisite ==
    /\ pc = "CheckingPrerequisites"
    /\ i <= Len(tpl.prerequisites)
    /\ IF check_prerequisite(tpl.prerequisites[i], hostTools)
       THEN /\ i' = i + 1
            /\ UNCHANGED <<pc, result, out>>
       ELSE /\ pc' = "Aborted"
            /\ result' = "False"
            /\ out' = Append(out, Msg("missing_prerequisite", i))
            /\ i' = i
    /\ UNCHANGED <<argv, doc, hostTools, variables, value, verdict, fs, fs0,
                   attempted, postLog, exitCode, substVars, listVars,
                   histVars, storeVars>>

PrerequisitesDone ==
    /\ pc = "CheckingPrerequisites"
    /\ i > Len(tpl.prerequisites)
    /\ pc' = "ExecutingSteps"
    /\ i' = 1
    /\ UNCHANGED <<argv, doc, hostTools, variables, value, verdict, fs, fs0,
                   attempted, postLog, out, result, exitCode, substVars, listVars,
                   histVars, storeVars>>

ExecuteStep ==
    /\ pc = "ExecutingSteps"
    /\ i <= Len(tpl.steps)
    /\ \E env \in StepEnv(tpl.steps[i]) :
        LET r == execute_step(tpl.steps[i], variables, fs, env)
        IN /\ fs' = IF StepAborts(r.ok) THEN AbortedFs(r.fs, fs0) ELSE r.fs
           /\ attempted' = Append(attempted, [index |-> i, ok |-> r.ok, env |-> env])
           /\ IF StepAborts(r.ok)
              THEN /\ pc' = "Aborted"
                   /\ result' = "False"
                   /\ out' = Append(out, Msg("failed_at_step", i))
                   /\ i' = i
              ELSE /\ i' = i + 1
                   /\ UNCHANGED <<pc, result, out>>
    /\ UNCHANGED <<argv, doc, hostTools, variables, value, verdict, fs0,
                   postLog, exitCode, substVars, listVars,
                   histVars, storeVars>>

StepsDone ==
    /\ pc = "ExecutingSteps"
    /\ i > Len(tpl.steps)
    /\ pc' = "PostInstall"
    /\ i' = 1
    /\ UNCHANGED <<argv, doc, hostTools, variables, value, verdict, fs, fs0,
                   attempted, postLog, out, result, exitCode, substVars, listVars,
                   histVars, storeVars>>

\* os.system(cmd): the command runs and its status is returned
PostInstallCommand ==
    /\ pc = "PostInstall"
    /\ i <= Len(tpl.postInstall)
    /\ \E status \in {0, 1} :
        /\ postLog' = Append(postLog,
              [index |-> i, status |-> status,
               cmd |-> substitute_variables(tpl.postInstall[i], variables)])
        /\ pc' = AfterPostInstall(status, i).pc
        /\ i' = AfterPostInstall(status, i).i
        /\ result' = IF AfterPostInstall(status, i).pc = "Aborted" THEN "False" ELSE result
    /\ UNCHANGED <<argv, doc, hostTools, variables, value, verdict, fs, fs0,
                   attempted, out, exitCode, substVars, listVars,
                   histVars, storeVars>>

\* next steps are shown, success is reported, execute_template returns True
Finish ==
    /\ pc = "PostInstall"
    /\ i > Len(tpl.postInstall)
    /\ pc' = "Done"
    /\ result' = "True"
    /\ out' = (IF tpl.nextSteps # <<>> THEN Append(out, Msg("next_steps", 0)) ELSE out)
                \o <<Msg("success", 0)>>
    /\ UNCHANGED <<argv, doc, hostTools, variables, value, verdict, i, fs, fs0,
                   attempted, postLog, exitCode, substVars, listVars,
                   histVars, storeVars>>

MainExit ==
    /\ pc \in {"Done", "Aborted", "Raised"}
    /\ pc' = "Exited"
    /\ exitCode' = ExitStatus(pc, result)
    /\ UNCHANGED <<argv, doc, hostTools, variables, value, verdict, i, fs, fs0,
                   attempted, postLog, out, result, substVars, listVars,
                   histVars, storeVars>>

\* substitute_variables and list_templates are not called
IdleSubst == sText = Empty /\ sMap = <<>> /\ sResult = Empty /\ sPc = "idle"
IdleList == dir = [exists |-> FALSE, files |-> <<>>] /\ listed = <<>> /\ lPc = "idle"

\* no earlier run; save_template and load_template not called on their own
NoPrev == [ran |-> FALSE, result |-> "None", variables |-> <<>>, fs |-> EmptyFs]
NoSave == [id |-> Empty, hasName |-> FALSE, name |-> Empty, ok |-> FALSE, called |-> FALSE]
NoLoad == [id |-> Empty, outcome |-> "none", kind |-> "none", hasName |-> FALSE, name |-> Empty]
IdleHist == prev = NoPrev
IdleStore == saved = NoSave /\ loaded = NoLoad

Init ==
    /\ pc = "main"
    /\ argv \in {<<"init">>, <<"init", "tpl">>}
    /\ doc \in Docs(RunTemplates)
    /\ Len(argv) < 2 => doc.state = "missing"
    /\ hostTools \in HostToolSets
    /\ tpl.prerequisites = <<>> => hostTools = Tools
    /\ variables = <<>>
    /\ value = Empty
    /\ verdict = "none"
    /\ i = 0
    /\ fs0 \in InitialFs
    /\ fs = fs0
    /\ attempted = <<>>
    /\ postLog = <<>>
    /\ out = <<>>
    /\ result = "None"
    /\ exitCode = -1
    /\ IdleSubst
    /\ IdleList
    /\ IdleHist
    /\ IdleStore

Next ==
    \/ MainInit
    \/ LoadTemplate
    \/ CollectInput
    \/ CollectReturn
    \/ CheckPrerequisite
    \/ PrerequisitesDone
    \/ ExecuteStep
    \/ StepsDone
    \/ PostInstallCommand
    \/ Finish
    \/ MainExit

Spec == Init /\ [][Next]_vars

----------------------------------------------------------------------------
(* collect_variables on templates with every kind of VariableSpec *)

NameSeq == <<NameA, NameB, <<"c">>, <<"e">>>>

SpecPool(n) ==
    {VarSpec(n, d, o, v) :
        d \in {Empty, Dev, Stage}, o \in {<<>>, <<Dev, Prod>>},
        v \in {NoPattern, LowerPlus, LowerOnly}}

\* variables lists of 1..MaxVars specs with distinct names
VariableLists ==
    UNION {{vs \in [1..n -> UNION {SpecPool(NameSeq[k]) : k \in 1..n}] :
                \A k \in 1..n : vs[k].name = NameSeq[k]} : n \in 1..MaxVars}

CollectTemplates == {Template(vs, <<>>, <<>>, <<>>, <<>>) : vs \in VariableLists}

InitCollect ==
    /\ pc = "main"
    /\ argv = <<"init", "tpl">>
    /\ doc \in {[state |-> "ok", template |-> t] : t \in CollectTemplates}
    /\ hostTools = Tools
    /\ variables = <<>>
    /\ value = Empty
    /\ verdict = "none"
    /\ i = 0
    /\ fs0 = EmptyFs
    /\ fs = fs0
    /\ attempted = <<>>
    /\ postLog = <<>>
    /\ out = <<>>
    /\ result = "None"
    /\ exitCode = -1
    /\ IdleSubst
    /\ IdleList
    /\ IdleHist
    /\ IdleStore

NextCollect ==
    \/ MainInit
    \/ LoadTemplate
    \/ CollectInput
    \/ CollectReturn

SpecCollect == InitCollect /\ [][NextCollect]_vars

----------------------------------------------------------------------------
(* substitute_variables on its own *)

IdleRun ==
    /\ pc = "idle"
    /\ argv = <<>>
    /\ doc = [state |-> "missing", template |-> NoTemplate]
    /\ hostTools = {}
    /\ variables = <<>>
    /\ value = Empty
    /\ verdict = "none"
    /\ i = 0
    /\ fs0 = EmptyFs
    /\ fs = fs0
    /\ attempted = <<>>
    /\ postLog = <<>>
    /\ out = <<>>
    /\ result = "None"
    /\ exitCode = -1

RECURSIVE Concat(_)
Concat(ps) == IF ps = <<>> THEN <<>> ELSE Head(ps) \o Concat(Tail(ps))

Pieces == {Token(NameA), Token(NameB), <<"x">>, <<"{">>}
Texts == {Concat(ps) : ps \in SeqsUpTo(Pieces, MaxPieces)}
Values == {Empty, <<"x">>, Token(NameA), Token(NameB), <<"{", "{", "b">>}

\* dicts over the names a, b in either insertion order
Mappings ==
    {<<>>}
    \cup {<<[name |-> n, value |-> v]>> : n \in {NameA, NameB}, v \in Values}
    \cup {<<[name |-> nm[1], value |-> v], [name |-> nm[2], value |-> w]>> :
            nm \in {<<NameA, NameB>>, <<NameB, NameA>>}, v \in Values, w \in Values}

InitSubst ==
    /\ IdleRun
    /\ IdleList
    /\ IdleHist
    /\ IdleStore
    /\ sText \in Texts
    /\ sMap \in Mappings
    /\ sResult = Empty
    /\ sPc = "call"

Substitute ==
    /\ sPc = "call"
    /\ sResult' = substitute_variables(sText, sMap)
    /\ sPc' = "done"
    /\ UNCHANGED <<sText, sMap, runVars, listVars, histVars, storeVars>>

NextSubst == Substitute

SpecSubst == InitSubst /\ [][NextSubst]_vars

----------------------------------------------------------------------------
(* TemplateEngine.list_templates *)

\* code points of the characters that occur in template names
Code(c) ==
    CASE c = "a" -> 97 [] c = "b" -> 98 [] c = "c" -> 99 [] c = "t" -> 116
      [] c = "1" -> 49 [] c = "2" -> 50 [] c = "3" -> 51 [] c = "4" -> 52 [] OTHER -> 0

\* str < str
RECURSIVE StrLess(_, _)
StrLess(s, t) ==
    IF t = <<>> THEN FALSE
    ELSE IF s = <<>> THEN TRUE
    ELSE IF Code(s[1]) # Code(t[1]) THEN Code(s[1]) < Code(t[1])
    ELSE StrLess(Tail(s), Tail(t))

\* a file of templates_dir: not JSON ("malformed"), a JSON array, or a JSON
\* object with or without the key 'name'
FileDoc(stem, kind, hasName, name) ==
    [stem |-> stem, kind |-> kind, hasName |-> hasName, name |-> name]

StemPool == {<<"t", "1">>, <<"t", "2">>, <<"t", "3">>, <<"t", "4">>}

DocPool(stem) ==
    {FileDoc(stem, "malformed", FALSE, Empty), FileDoc(stem, "array", FALSE, Empty),
     FileDoc(stem, "object", FALSE, Empty), FileDoc(stem, "object", TRUE, <<"a">>),
     FileDoc(stem, "object", TRUE, <<"b">>)}

\* the *.json files in the order glob yields them, stems distinct
Listings ==
    {fl \in SeqsUpTo(UNION {DocPool(st) : st \in StemPool}, MaxFiles) :
        \A j, k \in 1..Len(fl) : j # k => fl[j].stem # fl[k].stem}

\* x.get('name', '')
SortKey(t) == IF t.hasName THEN t.name ELSE Empty

\* sorted(templates, key=...): stable
RECURSIVE Insert(_, _)
Insert(sorted, t) ==
    IF sorted = <<>> THEN <<t>>
    ELSE IF StrLess(SortKey(t), SortKey(Head(sorted))) THEN <<t>> \o sorted
    ELSE <<Head(sorted)>> \o Insert(Tail(sorted), t)

RECURSIVE SortedByName(_)
SortedByName(ts) ==
    IF ts = <<>> THEN <<>>
    ELSE Insert(SortedByName(SubSeq(ts, 1, Len(ts) - 1)), ts[Len(ts)])

\* the loop over the files: json.load, template['filename'] = stem, append.
\* JSONDecodeError is caught; item assignment on a list raises TypeError,
\* which is not.
RECURSIVE ReadFiles(_, _, _)
ReadFiles(fl, k, acc) ==
    IF k > Len(fl) THEN [raised |-> FALSE, templates |-> acc]
    ELSE IF fl[k].kind = "malformed" THEN ReadFiles(fl, k + 1, acc)
    ELSE IF fl[k].kind = "array" THEN [raised |-> TRUE, templates |-> acc]
    ELSE ReadFiles(fl, k + 1,
            Append(acc, [name |-> fl[k].name, hasName |-> fl[k].hasName,
                         filename |-> fl[k].stem]))

InitList ==
    /\ IdleRun
    /\ IdleSubst
    /\ IdleHist
    /\ IdleStore
    /\ dir \in {[exists |-> FALSE, files |-> <<>>]}
               \cup {[exists |-> TRUE, files |-> fl] : fl \in Listings}
    /\ listed = <<>>
    /\ lPc = "call"

ListTemplates ==
    /\ lPc = "call"
    /\ IF ~dir.exists
       THEN /\ listed' = <<>>
            /\ lPc' = "returned"
       ELSE LET r == ReadFiles(dir.files, 1, <<>>)
            IN IF r.raised
               THEN /\ listed' = <<>>
                    /\ lPc' = "raised"
               ELSE /\ listed' = SortedByName(r.templates)
                    /\ lPc' = "returned"
    /\ UNCHANGED <<dir, runVars, substVars, histVars, storeVars>>

NextList == ListTemplates

SpecList == InitList /\ [][NextList]_vars

----------------------------------------------------------------------------
(* Properties of the runner (Spec) *)

Returned == pc \in {"Done", "Aborted", "Exited"}
LastOut == IF out = <<>> THEN Msg("nothing", 0) ELSE out[Len(out)]
Printed(m) == \E k \in 1..Len(out) : out[k].msg = m
StepPath(j) == substitute_variables(tpl.steps[j].path, variables)
StepContent(j) == substitute_variables(tpl.steps[j].content, variables)

\* C1: steps are attempted in declared order 1, 2, ...; a failed step is the
\* last one attempted, the run is then aborted with the failure reported at
\* that step, and every file the run wrote was written by an attempted step.
C1_StepsInOrderFailFast ==
    /\ \A j \in 1..Len(attempted) : attempted[j].index = j
    /\ \A j \in 1..Len(attempted) :
          ~attempted[j].ok =>
              /\ j = Len(attempted)
              /\ pc \in {"Aborted", "Exited"}
              /\ result = "False"
              /\ LastOut = Msg("failed_at_step", j)
    /\ \A p \in DOMAIN fs.files :
          p \in DOMAIN fs0.files
          \/ \E j \in 1..Len(attempted) : tpl.steps[j].type = "file" /\ StepPath(j) = p

\* [Directory(ok), Command(exit 1), File]: aborted at step 2, directory
\* made, no file written
C1_Witness ==
    /\ tpl.steps = <<StepDirectory, StepCommand, StepFile>>
    /\ pc = "Aborted"
    /\ attempted = <<[index |-> 1, ok |-> TRUE, env |-> "ok"],
                      [index |-> 2, ok |-> FALSE, env |-> "exit1"]>>
    /\ LastOut = Msg("failed_at_step", 2)
    /\ <<"d">> \in fs.dirs
    /\ DOMAIN fs.files = {}

MissingPrerequisite ==
    /\ doc.state = "ok"
    /\ \E k \in 1..Len(tpl.prerequisites) : tpl.prerequisites[k] \notin hostTools

\* C2: when a declared prerequisite is not resolvable, no step and no
\* post-install command is ever attempted, next steps and success are never
\* printed, the filesystem stays as it was, and the run does not return True.
C2_PrerequisiteGate ==
    MissingPrerequisite =>
        /\ attempted = <<>>
        /\ postLog = <<>>
        /\ fs = fs0
        /\ ~Printed("next_steps") /\ ~Printed("success")
        /\ pc \notin {"ExecutingSteps", "PostInstall", "Done"}
        /\ result # "True"
        /\ pc = "Aborted" => LastOut.msg = "missing_prerequisite"

C2_Witness ==
    /\ MissingPrerequisite
    /\ pc = "Aborted"
    /\ result = "False"
    /\ LastOut = Msg("missing_prerequisite", 2)
    /\ tpl.steps # <<>>
    /\ tpl.postInstall # <<>>
    /\ fs0 = BlockedFs

\* C3: the post-install commands are run once each in declared order, the
\* loop never stops early and never aborts the run: once a command has run
\* the run is in PostInstall or has returned True, and it returns True only
\* after all of them have run, whatever their statuses.
C3_PostInstallBestEffort ==
    /\ \A j \in 1..Len(postLog) :
          /\ postLog[j].index = j
          /\ postLog[j].cmd = substitute_variables(tpl.postInstall[j], variables)
    /\ pc = "PostInstall" => Len(postLog) = i - 1 /\ result = "None"
    /\ postLog # <<>> =>
          /\ pc \in {"PostInstall", "Done", "Exited"}
          /\ pc # "PostInstall" => result = "True"
    /\ result = "True" => Len(postLog) = Len(tpl.postInstall)

C3_Witness ==
    /\ pc = "Done"
    /\ result = "True"
    /\ Len(postLog) = 2
    /\ postLog[1].status = 1
    /\ postLog[2].status = 0
    /\ tpl.steps # <<>>

\* C7: in a run aborted at step k, the directory of every directory step
\* before k exists, the file of every file step before k exists with the
\* content the last such step wrote, and nothing that existed before the run
\* has been removed.
C7_NoRollback ==
    (pc \in {"Aborted", "Exited"} /\ attempted # <<>> /\ ~attempted[Len(attempted)].ok) =>
        /\ \A j \in 1..(Len(attempted) - 1) :
              /\ tpl.steps[j].type = "directory" => StepPath(j) \in fs.dirs
              /\ tpl.steps[j].type = "file" =>
                    /\ StepPath(j) \in DOMAIN fs.files
                    /\ ParentOf(StepPath(j)) \in fs.dirs
                    /\ \E h \in j..(Len(attempted) - 1) :
                          /\ tpl.steps[h].type = "file"
                          /\ StepPath(h) = StepPath(j)
                          /\ fs.files[StepPath(j)] = StepContent(h)
        /\ fs0.dirs \subseteq fs.dirs
        /\ DOMAIN fs0.files \subseteq DOMAIN fs.files

C7_Witness ==
    /\ pc = "Aborted"
    /\ tpl.steps = <<StepDirectory, StepFile, StepCommand>>
    /\ Len(attempted) = 3
    /\ ~attempted[3].ok
    /\ <<"d">> \in fs.dirs
    /\ <<"d", "/">> \o Prod \in DOMAIN fs.files
    /\ fs.files[<<"d", "/">> \o Prod] = <<"x", "=">> \o Prod

\* C9: a requested template that does not parse ends the run like any fatal
\* condition: execute_template returns False after printing a message, and
\* nothing was collected, checked or executed.
C9_MalformedTemplateAborts ==
    (doc.state = "malformed" /\ pc \notin {"main", "Loading"}) =>
        /\ pc \in {"Aborted", "Exited"}
        /\ result = "False"
        /\ out # <<>>
        /\ variables = <<>> /\ attempted = <<>> /\ postLog = <<>>

\* C10: the exit status of `init <template-name>` is 0 exactly when
\* execute_template returned True.
C10_ExitReflectsOutcome ==
    (pc = "Exited" /\ Len(argv) >= 2) => (exitCode = 0 <=> result = "True")

----------------------------------------------------------------------------
(* Properties of collect_variables (SpecCollect) *)

SpecNamed(n) == CHOOSE sp \in Range(tpl.variables) : sp.name = n

\* C5: every value in the mapping is non-empty and, when its variable has
\* options, is one of them; after a rejected value the loop is still at the
\* same variable, which is not in the mapping.
C5_CollectedValuesValid ==
    /\ \A k \in 1..Len(variables) :
          /\ variables[k].value # Empty
          /\ SpecNamed(variables[k].name).options # <<>> =>
                variables[k].value \in Range(SpecNamed(variables[k].name).options)
    /\ verdict \in {"required", "options", "format"} =>
          /\ pc = "CollectingVariables"
          /\ i <= Len(tpl.variables)
          /\ \A k \in 1..Len(variables) : variables[k].name # tpl.variables[i].name
    /\ pc = "CheckingPrerequisites" => Len(variables) = Len(tpl.variables)

\* the first variable took its default "dev" out of ["dev", "prod"], and
\* "stage" has just been refused for the second
C5_Witness ==
    /\ pc = "CollectingVariables"
    /\ Len(tpl.variables) = 2
    /\ i = 2
    /\ tpl.variables[1].options = <<Dev, Prod>>
    /\ variables = <<[name |-> NameA, value |-> Dev]>>
    /\ tpl.variables[2].options = <<Dev, Prod>>
    /\ tpl.variables[2].default = Stage
    /\ verdict = "options"
    /\ value = Stage

\* the whole value is in the pattern's class
FullMatch(pattern, v) == v # Empty /\ \A k \in 1..Len(v) : v[k] \in pattern.cls

\* C6: a value is accepted for a variable with a validation pattern only if
\* the whole value matches the pattern.
C6_ValidationFullMatch ==
    \A k \in 1..Len(variables) :
        SpecNamed(variables[k].name).validation.present =>
            FullMatch(SpecNamed(variables[k].name).validation, variables[k].value)

----------------------------------------------------------------------------
(* Properties of substitute_variables (SpecSubst) *)

\* one left-to-right scan of text: a placeholder of the mapping is replaced
\* by its value and the scan goes on behind it
RECURSIVE SubstituteOnce(_, _)
SubstituteOnce(text, m) ==
    IF text = <<>> THEN <<>>
    ELSE LET hits == {k \in 1..Len(m) :
                        /\ Len(text) >= Len(Token(m[k].name))
                        /\ SubSeq(text, 1, Len(Token(m[k].name))) = Token(m[k].name)}
         IN IF hits = {} THEN <<text[1]>> \o SubstituteOnce(Tail(text), m)
            ELSE LET k == CHOOSE h \in hits : \A g \in hits : h <= g
                 IN m[k].value
                    \o SubstituteOnce(SubSeq(text, Len(Token(m[k].name)) + 1, Len(text)), m)

\* C4: substitution is non-recursive: the result is the text with each
\* placeholder replaced once, substituted values not being scanned again.
C4_SubstitutionNonRecursive ==
    sPc = "done" => sResult = SubstituteOnce(sText, sMap)

----------------------------------------------------------------------------
(* Properties of list_templates (SpecList) *)

WellFormed(d) == d.kind = "object" /\ d.hasName

\* C8: list_templates always returns; the result holds exactly the
\* well-formed templates of the directory, each with its stem, sorted by
\* name ascending.
C8_ListSkipsBadDocuments ==
    lPc # "call" =>
        /\ lPc = "returned"
        /\ {[name |-> t.name, filename |-> t.filename] : t \in Range(listed)}
             = {[name |-> d.name, filename |-> d.stem] :
                    d \in {e \in Range(dir.files) : WellFormed(e)}}
        /\ \A j \in 1..(Len(listed) - 1) : ~StrLess(listed[j + 1].name, listed[j].name)

----------------------------------------------------------------------------
(* The same template run twice against the same target directory *)

\* a file step with a fixed path and templated content
StepNotes == [type |-> "file", command |-> Empty,
              path |-> <<"n">>, content |-> <<"x", "=">> \o Token(NameA)]

\* a directory step whose fixed path is the path StepFile writes for "dev"
StepDevDir == [type |-> "directory", command |-> Empty,
               path |-> <<"d", "/">> \o Dev, content |-> Empty]

TwicePool == {StepCommand, StepDirectory, StepFile, StepNotes, StepDevDir}

TwiceTemplates ==
    {Template(<<EnvVar>>, <<>>, st, <<>>, <<>>) : st \in SeqsUpTo(TwicePool, MaxSteps)}

InitTwice ==
    /\ pc = "main"
    /\ argv = <<"init", "tpl">>
    /\ doc \in {[state |-> "ok", template |-> t] : t \in TwiceTemplates}
    /\ hostTools = Tools
    /\ variables = <<>>
    /\ value = Empty
    /\ verdict = "none"
    /\ i = 0
    /\ fs0 = EmptyFs
    /\ fs = fs0
    /\ attempted = <<>>
    /\ postLog = <<>>
    /\ out = <<>>
    /\ result = "None"
    /\ exitCode = -1
    /\ IdleSubst
    /\ IdleList
    /\ IdleHist
    /\ IdleStore

\* the process has exited; `init` is invoked again in the same directory,
\* which holds whatever the first run left there
RunAgain ==
    /\ pc = "Exited"
    /\ ~prev.ran
    /\ prev' = [ran |-> TRUE, result |-> result, variables |-> variables, fs |-> fs]
    /\ pc' = "main"
    /\ variables' = <<>>
    /\ value' = Empty
    /\ verdict' = "none"
    /\ i' = 0
    /\ fs0' = fs
    /\ attempted' = <<>>
    /\ postLog' = <<>>
    /\ out' = <<>>
    /\ result' = "None"
    /\ exitCode' = -1
    /\ UNCHANGED <<argv, doc, hostTools, fs, substVars, listVars, storeVars>>

NextTwice ==
    \/ MainInit
    \/ LoadTemplate
    \/ CollectInput
    \/ CollectReturn
    \/ PrerequisitesDone
    \/ ExecuteStep
    \/ StepsDone
    \/ Finish
    \/ MainExit
    \/ RunAgain

SpecTwice == InitTwice /\ [][NextTwice]_vars

\* the host lets steps 1..j of the current run through
HostCooperates(j) == \A h \in 1..j : attempted[h].env \in {"ok", "exit0"}

\* the file of every file step of the current run that succeeded holds the
\* content substituted with this run's values (that of the last file step of
\* this run that wrote the path)
LatestContent ==
    \A j \in 1..Len(attempted) :
        (tpl.steps[j].type = "file" /\ attempted[j].ok) =>
            /\ StepPath(j) \in DOMAIN fs.files
            /\ \E h \in j..Len(attempted) :
                  /\ tpl.steps[h].type = "file" /\ attempted[h].ok
                  /\ StepPath(h) = StepPath(j)
                  /\ fs.files[StepPath(j)] = StepContent(h)

KindClash(j) ==
    \/ /\ tpl.steps[j].type = "file"
       /\ \/ StepPath(j) \in prev.fs.dirs
          \/ \E q \in Parents(StepPath(j)) : q \in DOMAIN prev.fs.files
    \/ /\ tpl.steps[j].type = "directory"
       /\ \/ StepPath(j) \in DOMAIN prev.fs.files
          \/ \E q \in Parents(StepPath(j)) : q \in DOMAIN prev.fs.files

----------------------------------------------------------------------------
(* Further properties of the runner (Spec) *)

\* C12: when the value source fails during collection (input() raises at
\* end of input), the run is aborted: execute_template returns False and no
\* prerequisite is checked and no step executed.
C12_SourceFailureAborts ==
    verdict = "eof" =>
        /\ pc \in {"Aborted", "Exited"}
        /\ result = "False"
        /\ attempted = <<>> /\ postLog = <<>>

UnknownType(j) == tpl.steps[j].type \notin {"command", "directory", "file"}

\* C13: a step of an unknown type succeeds and does not abort the run, and a
\* run that has attempted only such steps has left the filesystem as it was.
C13_UnknownStepNoOp ==
    /\ \A j \in 1..Len(attempted) :
          UnknownType(j) =>
              /\ attempted[j].ok
              /\ j = Len(attempted) => (pc # "Aborted" /\ result # "False")
    /\ (\A j \in 1..Len(attempted) : UnknownType(j)) => fs = fs0

\* an unknown step, then a file step that has run after it
C13_Witness ==
    /\ tpl.steps = <<StepOther, StepOther, StepFile>>
    /\ fs0 = EmptyFs
    /\ Len(attempted) = 3
    /\ attempted[3].ok
    /\ <<"d">> \in fs.dirs

\* C17: a non-zero exit, a timeout or a launch exception of a command step,
\* and a filesystem error of a directory or file step, each make execute_step
\* return False: the step is the last one attempted and the run is aborted
\* with the failure reported at it; nothing escapes the step loop.
C17_StepFailuresAreResults ==
    /\ \A j \in 1..Len(attempted) :
          \/ attempted[j].env \in {"exit1", "timeout", "oserror"}
          \/ tpl.steps[j].type = "directory" /\ StepPath(j) \in DOMAIN fs0.files
          \/ tpl.steps[j].type = "file"
               /\ \E q \in Parents(StepPath(j)) : q \in DOMAIN fs0.files
          => /\ ~attempted[j].ok
             /\ j = Len(attempted)
             /\ pc \in {"Aborted", "Exited"}
             /\ result = "False"
             /\ LastOut = Msg("failed_at_step", j)
    /\ attempted # <<>> => pc # "Raised"
    /\ pc = "ExecutingSteps" => result = "None"

\* the command of step 2 timed out; step 3 was not attempted
C17_Witness ==
    /\ Len(tpl.steps) = 3
    /\ tpl.steps[2].type = "command"
    /\ Len(attempted) = 2
    /\ attempted[2].env = "timeout"
    /\ pc = "Aborted"
    /\ result = "False"

AllStepsSucceeded ==
    /\ Len(attempted) = Len(tpl.steps)
    /\ \A j \in 1..Len(attempted) : attempted[j].ok

\* C18: a post-install command has run or next steps were printed only if
\* every step was attempted and succeeded; a run that returned False ran no
\* post-install command and printed no next steps.
C18_PostInstallOnlyAfterSteps ==
    /\ (postLog # <<>> \/ Printed("next_steps")) =>
          /\ doc.state = "ok"
          /\ ~MissingPrerequisite
          /\ AllStepsSucceeded
          /\ result # "False"
    /\ Printed("next_steps") => Len(postLog) = Len(tpl.postInstall)
    /\ result = "False" => (postLog = <<>> /\ ~Printed("next_steps"))

C18_Witness ==
    /\ pc = "Done"
    /\ Printed("next_steps")
    /\ Len(postLog) = 2
    /\ Len(attempted) = 3
    /\ tpl.prerequisites # <<>>

\* C19: once execute_template has returned, it returned True exactly when
\* the document was found, no declared prerequisite is missing and every
\* step was attempted and succeeded; post-install statuses and next steps
\* play no part.
C19_SuccessIff ==
    result # "None" =>
        (result = "True" <=>
            (doc.state = "ok" /\ ~MissingPrerequisite /\ AllStepsSucceeded))

\* success with both post-install commands failing and no next steps
C19_Witness ==
    /\ pc = "Exited"
    /\ result = "True"
    /\ Len(postLog) = 2
    /\ postLog[1].status = 1
    /\ postLog[2].status = 1
    /\ tpl.nextSteps = <<>>
    /\ tpl.prerequisites = <<"git", "node">>
    /\ tpl.steps # <<>>

----------------------------------------------------------------------------
(* Further properties of substitute_variables (SpecSubst) *)

\* the same name-to-value pairs, inserted in the opposite order
Reversed(m) == [k \in 1..Len(m) |-> m[Len(m) + 1 - k]]

\* C16: the result does not depend on the order in which the variables of
\* the mapping are processed (the names a and b are distinct and neither is
\* a prefix of the other).
C16_OrderIndependent ==
    sPc = "done" => sResult = substitute_variables(sText, Reversed(sMap))

----------------------------------------------------------------------------
(* Termination of collect_variables (SpecCollectLive) *)

\* the value source supplies a value that passes every check of variable i
AcceptInput == CollectInput /\ i' = i + 1

\* the program takes its next step whenever it has one, and a source that
\* can supply an acceptable value eventually does
SpecCollectLive ==
    /\ InitCollect
    /\ [][NextCollect]_vars
    /\ WF_vars(MainInit)
    /\ WF_vars(LoadTemplate)
    /\ WF_vars(CollectReturn)
    /\ WF_vars(AcceptInput)

\* the default of the VariableSpec violates its own options or validation
BadDefault(sp) ==
    /\ sp.default # Empty
    /\ \/ sp.options # <<>> /\ sp.default \notin Range(sp.options)
       \/ sp.validation.present /\ ~ReMatch(sp.validation, sp.default)

\* C20: unless the source fails, collect_variables returns; when it has
\* returned, the mapping has one entry per declared variable, in declaration
\* order; and an iteration that ends with a default that violates its own
\* options or validation as the value leaves the loop at the same variable,
\* however often that happens.
C20_CollectTerminates ==
    /\ ([](pc # "Raised")) => <>(pc = "CheckingPrerequisites")
    /\ [](pc = "CheckingPrerequisites" =>
            /\ Len(variables) = Len(tpl.variables)
            /\ \A k \in 1..Len(variables) : variables[k].name = tpl.variables[k].name)
    /\ [][(/\ pc = "CollectingVariables"
           /\ i <= Len(tpl.variables)
           /\ BadDefault(tpl.variables[IF i <= Len(tpl.variables) /\ i > 0 THEN i ELSE 1])
           /\ pc' = "CollectingVariables"
           /\ value' = tpl.variables[i].default)
          => (i' = i /\ variables' = variables /\ verdict' \in {"options", "format"})]_vars

\* the first variable, whose default "stage" is outside its options, was
\* refused with the default at least once... and both variables are now bound
C20_Witness ==
    /\ pc = "CheckingPrerequisites"
    /\ Len(tpl.variables) = 2
    /\ BadDefault(tpl.variables[1])
    /\ tpl.variables[1].options = <<Dev, Prod>>
    /\ variables = <<[name |-> NameA, value |-> Prod], [name |-> NameB, value |-> Stage]>>

----------------------------------------------------------------------------
(* The template store: save_template, load_template, list_templates *)

StoreIds == {<<"t", "1">>, <<"t", "2">>}
\* names of saved templates: unlike every identifier, or another identifier
StoreNames == {<<"a">>, <<"t", "2">>}
\* what load_template is asked for
LoadIds == StoreIds \cup StoreNames

InitStore ==
    /\ IdleRun
    /\ IdleSubst
    /\ IdleHist
    /\ IdleStore
    /\ dir \in {[exists |-> FALSE, files |-> <<>>], [exists |-> TRUE, files |-> <<>>]}
               \cup {[exists |-> TRUE, files |-> <<d>>] :
                        d \in DocPool(<<"t", "2">>) \cup DocPool(<<"t", "3">>)}
    /\ listed = <<>>
    /\ lPc = "call"

HasFile(files, id) == \E k \in 1..Len(files) : files[k].stem = id
FileOf(files, id) == files[CHOOSE k \in 1..Len(files) : files[k].stem = id]

\* open(template_file, 'w'); json.dump(...): the file is replaced, or is new
\* and shows up at some place pos of the directory listing
PutFile(files, d, pos) ==
    IF HasFile(files, d.stem)
    THEN [k \in 1..Len(files) |-> IF files[k].stem = d.stem THEN d ELSE files[k]]
    ELSE SubSeq(files, 1, pos - 1) \o <<d>> \o SubSeq(files, pos, Len(files))

\* save_template(id, t): env is what the host does to mkdir and open
SaveTemplate ==
    /\ lPc = "call"
    /\ \E id \in StoreIds, nm \in StoreNames,
          env \in {"ok", "mkdir_error", "open_error"}, pos \in 1..(Len(dir.files) + 1) :
        /\ HasFile(dir.files, id) \/ Len(dir.files) < MaxFiles
        /\ HasFile(dir.files, id) => pos = 1
        /\ env # "ok" => pos = 1
        /\ dir' = IF env = "mkdir_error" THEN dir
                  ELSE IF env = "open_error" THEN [dir EXCEPT !.exists = TRUE]
                  ELSE [exists |-> TRUE,
                        files |-> PutFile(dir.files, FileDoc(id, "object", TRUE, nm), pos)]
        /\ saved' = [id |-> id, hasName |-> TRUE, name |-> nm, ok |-> env = "ok",
                     called |-> TRUE]
        /\ loaded' = NoLoad
    /\ UNCHANGED <<listed, lPc, runVars, substVars, histVars>>

\* the document load_template(id) opens
DocOf(files, id) ==
    IF ~HasFile(files, id) THEN [state |-> "missing", template |-> NoTemplate]
    ELSE IF FileOf(files, id).kind = "malformed"
    THEN [state |-> "malformed", template |-> NoTemplate]
    ELSE [state |-> "ok", template |-> NoTemplate]

\* load_template(id): the parsed document is returned as it is
LoadById ==
    /\ lPc = "call"
    /\ \E id \in LoadIds :
        loaded' =
            IF load_template(DocOf(dir.files, id)) = "ok"
            THEN [id |-> id, outcome |-> "ok", kind |-> FileOf(dir.files, id).kind,
                  hasName |-> FileOf(dir.files, id).hasName,
                  name |-> FileOf(dir.files, id).name]
            ELSE [NoLoad EXCEPT !.id = id,
                                !.outcome = load_template(DocOf(dir.files, id))]
    /\ UNCHANGED <<dir, saved, listed, lPc, runVars, substVars, histVars>>

NextStore ==
    \/ SaveTemplate
    \/ LoadById
    \/ ListTemplates

SpecStore == InitStore /\ [][NextStore]_vars

\* save, load and list agree on the template last saved
SavedIsStored ==
    saved.ok =>
        /\ dir.exists
        /\ HasFile(dir.files, saved.id)
        /\ FileOf(dir.files, saved.id) = FileDoc(saved.id, "object", TRUE, saved.name)

LoadFindsByStem ==
    (saved.ok /\ loaded.outcome # "none") =>
        /\ loaded.id = saved.id =>
              (loaded.outcome = "ok" /\ loaded.hasName /\ loaded.name = saved.name)
        /\ (loaded.id # saved.id /\ loaded.id = saved.name) =>
              (loaded.outcome = "FileNotFoundError" <=> ~HasFile(dir.files, loaded.id))

ListShowsSaved ==
    (saved.ok /\ lPc # "call") =>
        /\ lPc = "returned"
        /\ \E k \in 1..Len(listed) :
              listed[k].filename = saved.id /\ listed[k].name = saved.name

\* C14: after a successful save(id, T) the directory exists and holds T under
\* the stem id; load(id) returns T with its name; load(name), for a name that
\* is not the id, fails as not found exactly when no document has that stem;
\* and list returns the template with its name and its stem.
C14_LookupByStem == SavedIsStored /\ LoadFindsByStem /\ ListShowsSaved

----------------------------------------------------------------------------
(* The command line: main with the commands list, init and info *)

InitCli ==
    /\ pc = "main"
    /\ argv \in {<<"list">>, <<"info">>, <<"info", "tpl">>, <<"init">>, <<"init", "tpl">>}
    /\ doc \in IF Len(argv) < 2 \/ argv[1] = "list"
                THEN {[state |-> "missing", template |-> NoTemplate]}
                ELSE Docs(RunTemplates)
    /\ hostTools \in IF tpl.prerequisites = <<>> \/ argv[1] # "init"
                      THEN {Tools} ELSE HostToolSets
    /\ variables = <<>>
    /\ value = Empty
    /\ verdict = "none"
    /\ i = 0
    /\ fs0 \in IF argv[1] = "init" THEN InitialFs ELSE {EmptyFs}
    /\ fs = fs0
    /\ attempted = <<>>
    /\ postLog = <<>>
    /\ out = <<>>
    /\ result = "None"
    /\ exitCode = -1
    /\ IdleSubst
    /\ dir \in {[exists |-> FALSE, files |-> <<>>]}
               \cup IF argv[1] = "list"
                    THEN {[exists |-> TRUE, files |-> fl] : fl \in Listings}
                    ELSE {}
    /\ listed = <<>>
    /\ lPc = "idle"
    /\ IdleHist
    /\ IdleStore

\* command == 'list': engine.list_templates() is called
MainList ==
    /\ pc = "main"
    /\ argv[1] = "list"
    /\ pc' = "Listing"
    /\ lPc' = "call"
    /\ UNCHANGED <<argv, doc, hostTools, variables, value, verdict, i, fs, fs0,
                   attempted, postLog, out, result, exitCode, substVars, dir, listed,
                   histVars, storeVars>>

\* the lines printed for templates 1..k, up to the first one without 'name'
RECURSIVE ListLines(_, _)
ListLines(ts, k) ==
    IF k > Len(ts) THEN [raised |-> FALSE, lines |-> <<>>]
    ELSE IF ~ts[k].hasName THEN [raised |-> TRUE, lines |-> <<>>]
    ELSE LET rest == ListLines(ts, k + 1)
         IN [raised |-> rest.raised, lines |-> <<Msg("template", k)>> \o rest.lines]

\* main after list_templates: its exception escapes; an empty result is
\* reported; otherwise one line per template, where template['name'] raises
\* KeyError for a template without the key
MainListPrint ==
    /\ pc = "Listing"
    /\ lPc \in {"returned", "raised"}
    /\ IF lPc = "raised"
       THEN /\ pc' = "Raised"
            /\ UNCHANGED <<out, exitCode>>
       ELSE IF listed = <<>>
       THEN /\ pc' = "Exited"
            /\ exitCode' = 0
            /\ out' = Append(out, Msg("no_templates", 0))
       ELSE LET p == ListLines(listed, 1)
            IN IF p.raised
               THEN /\ pc' = "Raised"
                    /\ out' = out \o <<Msg("available", 0)>> \o p.lines
                    /\ UNCHANGED exitCode
               ELSE /\ pc' = "Exited"
                    /\ exitCode' = 0
                    /\ out' = out \o <<Msg("available", 0)>> \o p.lines
                                  \o <<Msg("total", Len(listed))>>
    /\ UNCHANGED <<argv, doc, hostTools, variables, value, verdict, i, fs, fs0,
                   attempted, postLog, result, substVars, listVars,
                   histVars, storeVars>>

\* command == 'info': FileNotFoundError is caught and reported; any other
\* exception of load_template escapes
MainInfo ==
    /\ pc = "main"
    /\ argv[1] = "info"
    /\ IF Len(argv) < 2
       THEN /\ pc' = "Exited"
            /\ exitCode' = 0
            /\ out' = Append(out, Msg("specify_template", 0))
       ELSE IF load_template(doc) = "FileNotFoundError"
       THEN /\ pc' = "Exited"
            /\ exitCode' = 0
            /\ out' = Append(out, Msg("not_found", 0))
       ELSE IF load_template(doc) = "JSONDecodeError"
       THEN /\ pc' = "Raised"
            /\ UNCHANGED <<out, exitCode>>
       ELSE /\ pc' = "Exited"
            /\ exitCode' = 0
            /\ out' = Append(out, Msg("info", Len(tpl.steps)))
    /\ UNCHANGED <<argv, doc, hostTools, variables, value, verdict, i, fs, fs0,
                   attempted, postLog, result, substVars, listVars,
                   histVars, storeVars>>

NextCli ==
    \/ MainList
    \/ ListTemplates
    \/ MainListPrint
    \/ MainInfo
    \/ MainInit
    \/ LoadTemplate
    \/ CollectInput
    \/ CollectReturn
    \/ CheckPrerequisite
    \/ PrerequisitesDone
    \/ ExecuteStep
    \/ StepsDone
    \/ PostInstallCommand
    \/ Finish
    \/ MainExit

SpecCli == InitCli /\ [][NextCli]_vars

NoBackingDocument == Len(argv) >= 2 /\ doc.state = "missing"

\* list_templates has returned from a directory that is absent or empty
ListedNothing == lPc \notin {"idle", "call"} /\ (~dir.exists \/ dir.files = <<>>)

\* C15: list on an absent or empty template directory returns the empty
\* sequence without an exception, and the command reports that and exits with
\* status 0; init on an identifier without a document prints not-found and
\* ends in Aborted with no variable asked for, no prerequisite checked, no
\* step or post-install command executed and the filesystem untouched; info
\* on such an identifier prints not-found and no metadata.
C15_AbsenceReported ==
    /\ ListedNothing =>
          /\ lPc = "returned"
          /\ listed = <<>>
          /\ pc # "Raised"
          /\ pc = "Exited" => (exitCode = 0 /\ out = <<Msg("no_templates", 0)>>)
    /\ (argv[1] = "init" /\ NoBackingDocument /\ pc \notin {"main", "Loading"}) =>
          /\ pc \in {"Aborted", "Exited"}
          /\ result = "False"
          /\ out = <<Msg("not_found", 0)>>
          /\ variables = <<>>
          /\ verdict = "none"
          /\ attempted = <<>>
          /\ postLog = <<>>
          /\ fs = fs0
    /\ (argv[1] = "info" /\ NoBackingDocument /\ pc # "main") =>
          /\ pc = "Exited"
          /\ out = <<Msg("not_found", 0)>>

C15_Witness ==
    /\ argv = <<"info", "tpl">>
    /\ doc.state = "missing"
    /\ pc = "Exited"
    /\ out = <<Msg("not_found", 0)>>

====
